---- MODULE Spec2Model ----
(***************************************************************************)
(* Model of markdown/extensions/admonition.py: AdmonitionProcessor, the    *)
(* block processor that opens admonition containers on a "!!!" marker and  *)
(* resolves indented continuation blocks, driven by the host block parser. *)
(*                                                                         *)
(* Text is modelled at character level: a string is a sequence of          *)
(* one-character strings, so a block is one sequence that may hold "\n".   *)
(* The element tree is a sequence of nodes; node i has a parent j < i and  *)
(* the children of a node are ordered by index, because every element the  *)
(* code creates is appended (etree.SubElement).                            *)
(***************************************************************************)
EXTENDS Integers, Sequences, FiniteSets, TLC

\* ------------------------------------------------------------------ text

SP == " "
NL == "\n"
QT == "\""

LowerCase == <<"a","b","c","d","e","f","g","h","i","j","k","l","m",
               "n","o","p","q","r","s","t","u","v","w","x","y","z">>
UpperCase == <<"A","B","C","D","E","F","G","H","I","J","K","L","M",
               "N","O","P","Q","R","S","T","U","V","W","X","Y","Z">>
Digits == {"0","1","2","3","4","5","6","7","8","9"}

Range(f) == {f[i] : i \in DOMAIN f}

LowerSet == Range(LowerCase)
UpperSet == Range(UpperCase)
ToLower == [c \in UpperSet |-> LowerCase[CHOOSE i \in 1..26 : UpperCase[i] = c]]
ToUpper == [c \in LowerSet |-> UpperCase[CHOOSE i \in 1..26 : LowerCase[i] = c]]

\* str.lower() on one character
LowerChar(c) == IF c \in UpperSet THEN ToLower[c] ELSE c

\* str.upper() on one character
UpperChar(c) == IF c \in LowerSet THEN ToUpper[c] ELSE c

\* str.lower()
Lower(s) == [i \in 1..Len(s) |-> LowerChar(s[i])]

\* str.capitalize(): first character upper-cased, the rest lower-cased
Capitalize(s) ==
    [i \in 1..Len(s) |-> IF i = 1 THEN UpperChar(s[i]) ELSE LowerChar(s[i])]

\* ' ' * n
Spaces(n) == IF n <= 0 THEN <<>> ELSE [i \in 1..n |-> SP]

\* s[a:b], offsets clamped to the string as Python does
Slice(s, a, b) ==
    LET lo == IF a < 0 THEN 0 ELSE a
        hi == IF b > Len(s) THEN Len(s) ELSE b
    IN  IF hi <= lo THEN <<>> ELSE [i \in 1..(hi - lo) |-> s[lo + i]]

\* s.startswith(p)
StartsWith(s, p) == Len(s) >= Len(p) /\ Slice(s, 0, Len(p)) = p

\* s[n:]
Drop(s, n) == Slice(s, n, Len(s))

\* s[:n]
Take(s, n) == Slice(s, 0, n)

RECURSIVE FindFrom(_, _, _)
FindFrom(s, p, k) ==
    IF k + Len(p) > Len(s) THEN -1
    ELSE IF \A i \in 1..Len(p) : s[k + i] = p[i] THEN k
    ELSE FindFrom(s, p, k + 1)

\* s.find(p): the least 0-based offset at which p occurs in s, or -1
Find(s, p) == FindFrom(s, p, 0)

\* not s.strip(): s holds white space only
IsBlank(s) == \A i \in 1..Len(s) : s[i] \in {SP, NL}

RECURSIVE Flatten(_)
\* concatenation of a sequence of sequences, in order
Flatten(ss) == IF ss = <<>> THEN <<>> ELSE Head(ss) \o Flatten(Tail(ss))

RECURSIVE SplitOn(_, _)
\* s.split(sep) for a non-empty separator: always at least one part
SplitOn(s, sep) ==
    LET k == Find(s, sep)
    IN  IF k = -1 THEN <<s>>
        ELSE <<Take(s, k)>> \o SplitOn(Drop(s, k + Len(sep)), sep)

RECURSIVE JoinWith(_, _)
\* sep.join(parts)
JoinWith(parts, sep) ==
    IF parts = <<>> THEN <<>>
    ELSE IF Len(parts) = 1 THEN parts[1]
    ELSE parts[1] \o sep \o JoinWith(Tail(parts), sep)

\* text.split('\n') and '\n'.join(lines)
Lines(s) == SplitOn(s, <<NL>>)
Unlines(ls) == JoinWith(ls, <<NL>>)

\* ------------------------------------------------------- Marker Matcher
\* RE = (?:^|\n)!!! ?([\w\-]+(?: +[\w\-]+)*)(?: +"(.*?)")? *(?:\n|$)
\* The matcher below is a backtracking matcher: every piece of the pattern
\* maps an offset (the number of characters consumed so far) to the sequence
\* of offsets it can end at, in the order the regex engine tries them
\* (greedy: longest first, lazy: shortest first, alternation: left first).
\* The match is the first complete path.

NoneStr == [some |-> FALSE, val |-> <<>>]
Some(s) == [some |-> TRUE, val |-> s]

\* [\w\-]
ClassChars == LowerSet \cup UpperSet \cup Digits \cup {"_", "-"}
IsClassChar(c) == c \in ClassChars

At(s, p) == IF p + 1 <= Len(s) THEN s[p + 1] ELSE ""

IsSpace(c) == c = SP
NotNewline(c) == c # NL

RECURSIVE RunClass(_, _)
RECURSIVE RunSpace(_, _)
RECURSIVE RunNotNewline(_, _)
\* the length of the longest run of [\w\-], of spaces, of . at offset p
RunClass(s, p) ==
    IF p < Len(s) /\ IsClassChar(s[p + 1]) THEN 1 + RunClass(s, p + 1) ELSE 0
RunSpace(s, p) ==
    IF p < Len(s) /\ IsSpace(s[p + 1]) THEN 1 + RunSpace(s, p + 1) ELSE 0
RunNotNewline(s, p) ==
    IF p < Len(s) /\ NotNewline(s[p + 1]) THEN 1 + RunNotNewline(s, p + 1) ELSE 0

\* X+ greedy over a run of n characters at p: the end offsets, longest first
PlusGreedy(p, n) == [i \in 1..n |-> p + n + 1 - i]

\* X* greedy
StarGreedy(p, n) == PlusGreedy(p, n) \o <<p>>

\* X*? lazy: the end offsets, shortest first
StarLazy(p, n) == [i \in 1..(n + 1) |-> p + i - 1]

\* a literal
Lit(s, p, l) == IF Slice(s, p, p + Len(l)) = l
                THEN <<p + Len(l)>> ELSE <<>>

\* (?:^|\n)
ReStart(s, p) ==
    (IF p = 0 THEN <<p>> ELSE <<>>) \o Lit(s, p, <<NL>>)

\* (?:\n|$): $ matches at the end and before a final newline
ReEnd(s, p) ==
    Lit(s, p, <<NL>>)
    \o (IF p = Len(s) \/ (p = Len(s) - 1 /\ s[Len(s)] = NL) THEN <<p>> ELSE <<>>)

RECURSIVE ReClassTail(_, _)
\* (?: +[\w\-]+)* greedy
ReClassTail(s, p) ==
    LET sp == PlusGreedy(p, RunSpace(s, p))
    IN  Flatten([i \in 1..Len(sp) |->
            LET cl == PlusGreedy(sp[i], RunClass(s, sp[i]))
            IN  Flatten([j \in 1..Len(cl) |-> ReClassTail(s, cl[j])])])
        \o <<p>>

\* ([\w\-]+(?: +[\w\-]+)*) from offset p: the end offsets of group 1
ReGroup1(s, p) ==
    LET cl == PlusGreedy(p, RunClass(s, p))
    IN  Flatten([j \in 1..Len(cl) |-> ReClassTail(s, cl[j])])

\* a variant of "(.*?)" whose closing quote is optional
ReQuotedOpen(s, q) ==
    LET a == q + 1
        bs == StarLazy(a, RunNotNewline(s, a))
    IN  IF At(s, q) # QT THEN <<>>
        ELSE Flatten([i \in 1..Len(bs) |->
                 IF At(s, bs[i]) = QT
                 THEN <<[pos |-> bs[i] + 1, g2 |-> Some(Slice(s, a, bs[i]))]>>
                 ELSE <<[pos |-> bs[i], g2 |-> Some(Slice(s, a, bs[i]))]>>])

\* "(.*?)" from offset q, the opening quote at q: [pos, g2], lazy
ReQuoted(s, q) ==
    LET a == q + 1
        bs == StarLazy(a, RunNotNewline(s, a))
    IN  IF At(s, q) # QT THEN <<>>
        ELSE Flatten([i \in 1..Len(bs) |->
                 IF At(s, bs[i]) = QT
                 THEN <<[pos |-> bs[i] + 1, g2 |-> Some(Slice(s, a, bs[i]))]>>
                 ELSE <<>>])

\* (?: +"(.*?)")? from offset p: [pos, g2] in order, the skip last
ReTitle(s, p) ==
    LET sp == PlusGreedy(p, RunSpace(s, p))
    IN  Flatten([i \in 1..Len(sp) |-> ReQuoted(s, sp[i])])
        \o <<[pos |-> p, g2 |-> NoneStr]>>

\*  *(?:\n|$) from offset p: the end offsets
ReTrail(s, p) ==
    LET sp == StarGreedy(p, RunSpace(s, p))
    IN  Flatten([i \in 1..Len(sp) |-> ReEnd(s, sp[i])])

\* the pattern from group 1 on, group 1 starting at p3
ReFromGroup1(s, p0, p3) ==
    LET g == ReGroup1(s, p3)
    IN  Flatten([i \in 1..Len(g) |->
            LET ts == ReTitle(s, g[i])
            IN  Flatten([j \in 1..Len(ts) |->
                    LET es == ReTrail(s, ts[j].pos)
                    IN  [k \in 1..Len(es) |->
                            [start |-> p0, end |-> es[k],
                             g1 |-> Slice(s, p3, g[i]), g2 |-> ts[j].g2]]])])

\* every complete path of RE from offset p0, in the engine's order
ReMatchesAt(s, p0) ==
    LET p1s == ReStart(s, p0)
    IN  Flatten([i \in 1..Len(p1s) |->
            LET p2s == Lit(s, p1s[i], <<"!", "!", "!">>)
            IN  Flatten([j \in 1..Len(p2s) |->
                    LET p3s == Lit(s, p2s[j], <<SP>>) \o <<p2s[j]>>
                    IN  Flatten([k \in 1..Len(p3s) |->
                            ReFromGroup1(s, p0, p3s[k])])])])

NoMatch == [ok |-> FALSE, start |-> 0, end |-> 0, g1 |-> <<>>, g2 |-> NoneStr]

\* RE.search(block): the first match at the least offset, or NoMatch
RECURSIVE ReSearchFrom(_, _)
ReSearchFrom(s, p) ==
    IF p > Len(s) THEN NoMatch
    ELSE LET ms == ReMatchesAt(s, p)
         IN  IF ms = <<>> THEN ReSearchFrom(s, p + 1)
             ELSE [ok |-> TRUE, start |-> ms[1].start, end |-> ms[1].end,
                   g1 |-> ms[1].g1, g2 |-> ms[1].g2]

RESearch(s) == ReSearchFrom(s, 0)

CLASSNAME == <<"a","d","m","o","n","i","t","i","o","n">>
CLASSNAME_TITLE == CLASSNAME \o <<"-","t","i","t","l","e">>

RECURSIVE ReSpacesSubPairs(_)
\* a variant of RE_SPACES that matches two spaces, not a run of them
ReSpacesSubPairs(s) ==
    IF s = <<>> THEN <<>>
    ELSE IF RunSpace(s, 0) >= 2 THEN <<SP>> \o ReSpacesSubPairs(Drop(s, 2))
    ELSE <<s[1]>> \o ReSpacesSubPairs(Tail(s))

RECURSIVE ReSpacesSub(_)
\* RE_SPACES.sub(' ', s): every run of two or more spaces becomes one
ReSpacesSub(s) ==
    IF s = <<>> THEN <<>>
    ELSE LET n == RunSpace(s, 0)
         IN  IF n >= 2 THEN <<SP>> \o ReSpacesSub(Drop(s, n))
             ELSE <<s[1]>> \o ReSpacesSub(Tail(s))

\* a variant of get_class_and_title that capitalizes the whole class string
\* for the default title
get_class_and_title_whole(m) ==
    LET klass == ReSpacesSub(Lower(m.g1))
        title == IF ~m.g2.some
                 THEN Some(Capitalize(klass))
                 ELSE IF m.g2.val = <<>> THEN NoneStr
                 ELSE m.g2
    IN  [klass |-> klass, title |-> title]

\* get_class_and_title(match): title none means no title child
get_class_and_title(m) ==
    LET klass == ReSpacesSub(Lower(m.g1))
        title == IF ~m.g2.some
                 THEN Some(Capitalize(SplitOn(klass, <<SP>>)[1]))
                 ELSE IF m.g2.val = <<>> THEN NoneStr
                 ELSE m.g2
    IN  [klass |-> klass, title |-> title]

\* ------------------------------------------------------------ the tree
\* A node: tag, class attribute ("" when absent), text ("" when None or
\* empty) and the index of its parent (0 for the root).  None, as a node
\* reference, is 0.

None == 0

Node(tag, class, text, parent) ==
    [tag |-> tag, class |-> class, text |-> text, parent |-> parent]

\* etree.SubElement(parent, tag): a new last child; its index
SubElement(t, parent, tag) == Append(t, Node(tag, <<>>, <<>>, parent))
NewId(t) == Len(t) + 1

Children(t, n) == {i \in 1..Len(t) : t[i].parent = n}

\* len(element) > 0, the truth value of an element
HasChildren(t, n) == Children(t, n) # {}
Truthy(t, n) == n # None /\ HasChildren(t, n)

\* Blockprocessor.lastChild(parent)
lastChild(t, n) ==
    IF HasChildren(t, n)
    THEN CHOOSE i \in Children(t, n) : \A j \in Children(t, n) : j <= i
    ELSE None

\* the indent width of the host parser (Markdown.tab_length)
tab_length == 4

\* Blockprocessor.detab(text, length)
RECURSIVE DetabLines(_, _)
DetabLines(ls, length) ==
    IF ls = <<>> THEN <<>>
    ELSE IF StartsWith(Head(ls), Spaces(length))
         THEN <<Drop(Head(ls), length)>> \o DetabLines(Tail(ls), length)
    ELSE IF IsBlank(Head(ls))
         THEN << <<>> >> \o DetabLines(Tail(ls), length)
    ELSE <<>>

detab(text, length) ==
    LET ls == Lines(text)
        newtext == DetabLines(ls, length)
    IN  [block |-> Unlines(newtext),
         rest |-> Unlines(Slice(ls, Len(newtext), Len(ls)))]

\* --------------------------------------------------- AdmonitionProcessor

ListTags == {"ul", "ol", "dl"}

\* sibling.get('class', '').find(self.CLASSNAME) == -1
LacksClassName(t, n) == Find(t[n].class, CLASSNAME) = -1

RECURSIVE DescendNoTrim(_, _, _, _, _)
\* a variant of the while loop that leaves out line 93: the block keeps
\* its indentation as the loop descends
DescendNoTrim(t, sibling, last_child, block, indent) ==
    IF ~Truthy(t, last_child)
    THEN [sibling |-> sibling, block |-> block, indent |-> indent]
    ELSE IF /\ Truthy(t, sibling)
            /\ StartsWith(block, Spaces(tab_length * 2))
            /\ t[last_child].tag \in ListTags
         THEN LET sib == lastChild(t, last_child)
              IN  DescendNoTrim(t, sib,
                                IF Truthy(t, sib) THEN lastChild(t, sib) ELSE None,
                                block, indent + tab_length)
         ELSE [sibling |-> sibling, block |-> block, indent |-> indent]

RECURSIVE DescendDouble(_, _, _, _, _)
\* a variant of the while loop that counts two widths for a descent
DescendDouble(t, sibling, last_child, block, indent) ==
    IF ~Truthy(t, last_child)
    THEN [sibling |-> sibling, block |-> block, indent |-> indent]
    ELSE IF /\ Truthy(t, sibling)
            /\ StartsWith(block, Spaces(tab_length * 2))
            /\ t[last_child].tag \in ListTags
         THEN LET sib == lastChild(t, last_child)
              IN  DescendDouble(t, sib,
                                IF Truthy(t, sib) THEN lastChild(t, sib) ELSE None,
                                Drop(block, tab_length), indent + 2 * tab_length)
         ELSE [sibling |-> sibling, block |-> block, indent |-> indent]

RECURSIVE Descend(_, _, _, _, _)
\* the while loop of parse_content: [sibling, block, indent] at its exit
Descend(t, sibling, last_child, block, indent) ==
    IF ~Truthy(t, last_child)
    THEN [sibling |-> sibling, block |-> block, indent |-> indent]
    ELSE IF /\ Truthy(t, sibling)
            /\ StartsWith(block, Spaces(tab_length * 2))
            /\ t[last_child].tag \in ListTags
         THEN LET sib == lastChild(t, last_child)
              IN  Descend(t, sib,
                          IF Truthy(t, sib) THEN lastChild(t, sib) ELSE None,
                          Drop(block, tab_length), indent + tab_length)
         ELSE [sibling |-> sibling, block |-> block, indent |-> indent]

\* a variant of lines 98-105 that does not add the container's own width
AfterDescendNoAdd(d) ==
    IF ~StartsWith(d.block, Spaces(tab_length))
    THEN [sibling |-> None, block |-> d.block, indent |-> d.indent]
    ELSE [sibling |-> d.sibling, block |-> d.block, indent |-> d.indent]

\* a variant of lines 98-105 without the check of lines 98-99
AfterDescendNoCheck(d) ==
    [sibling |-> d.sibling, block |-> d.block, indent |-> d.indent + tab_length]

\* lines 98-105 on the loop's result d: the target and the total indent,
\* target None when the block is not indented under the target
AfterDescend(d) ==
    IF ~StartsWith(d.block, Spaces(tab_length))
    THEN [sibling |-> None, block |-> d.block, indent |-> d.indent]
    ELSE [sibling |-> d.sibling, block |-> d.block,
          indent |-> d.indent + tab_length]

\* lines 70-99 from the parent's last child, first
LocateFrom(t, first, block) ==
    IF first = None \/ LacksClassName(t, first)
    THEN [sibling |-> None, block |-> block, indent |-> 0]
    ELSE AfterDescend(Descend(t, first, lastChild(t, first), block, 0))

\* the search of parse_content (current_sibling is None): the target and
\* the total indent, target None when there is no continuation
Locate(t, parent, block) == LocateFrom(t, lastChild(t, parent), block)

\* a variant of lines 63-68 that loses the lines after the indented ones
TakeCachedDropRest(cur, d) ==
    [sibling |-> cur, block |-> d.block, the_rest |-> <<>>,
     cur |-> None, ind |-> 0]

\* a variant of lines 63-68 that leaves the fields set
TakeCachedKeep(cur, d) ==
    [sibling |-> cur, block |-> d.block, the_rest |-> d.rest,
     cur |-> cur, ind |-> 0]

\* lines 63-68: the cached target is returned and the fields are cleared
TakeCached(cur, d) ==
    [sibling |-> cur, block |-> d.block, the_rest |-> d.rest,
     cur |-> None, ind |-> 0]

\* lines 101-107 on the search's result l
Found(l, d, cur, ind) ==
    IF l.sibling = None
    THEN [sibling |-> None, block |-> l.block, the_rest |-> <<>>,
          cur |-> cur, ind |-> ind]
    ELSE [sibling |-> l.sibling, block |-> d.block, the_rest |-> d.rest,
          cur |-> l.sibling, ind |-> l.indent]

FoundAt(l, old_block, cur, ind) == Found(l, detab(old_block, l.indent), cur, ind)

\* a variant of parse_content whose cached branch dedents by one width, as
\* the marker branch of run does, instead of by the cached indent
parse_content_one_width(cur, ind, t, parent, block) ==
    IF cur # None
    THEN TakeCached(cur, detab(block, tab_length))
    ELSE FoundAt(Locate(t, parent, block), block, cur, ind)

\* parse_content(parent, block) with the processor's fields cur, ind:
\* the returned triple and the fields afterwards
parse_content(cur, ind, t, parent, block) ==
    IF cur # None
    THEN TakeCached(cur, detab(block, ind))
    ELSE FoundAt(Locate(t, parent, block), block, cur, ind)

TestResult(r) == [ret |-> r.sibling # None, cur |-> r.cur, ind |-> r.ind]

\* test(parent, block): the result and the fields afterwards
test(cur, ind, t, parent, block) ==
    IF RESearch(block).ok
    THEN [ret |-> TRUE, cur |-> cur, ind |-> ind]
    ELSE TestResult(parse_content(cur, ind, t, parent, block))

\* a variant of lines 129-135 that nests the container in the parent's
\* latest child
CreateDivInSibling(t, parent, ct) ==
    LET under == IF lastChild(t, parent) # None THEN lastChild(t, parent) ELSE parent
    IN  IF ct.title.some /\ ct.title.val # <<>>
        THEN Append(Append(t, Node("div", CLASSNAME \o <<SP>> \o ct.klass, <<>>, under)),
                    Node("p", CLASSNAME_TITLE, ct.title.val, NewId(t)))
        ELSE Append(t, Node("div", CLASSNAME \o <<SP>> \o ct.klass, <<>>, under))

\* a variant of lines 129-135 that makes the title a child of the parent
CreateDivTitleInParent(t, parent, ct) ==
    IF ct.title.some /\ ct.title.val # <<>>
    THEN Append(Append(t, Node("div", CLASSNAME \o <<SP>> \o ct.klass, <<>>, parent)),
                Node("p", CLASSNAME_TITLE, ct.title.val, parent))
    ELSE Append(t, Node("div", CLASSNAME \o <<SP>> \o ct.klass, <<>>, parent))

\* lines 129-135: the container and its optional title; ct is the result
\* of get_class_and_title
CreateDiv(t, parent, ct) ==
    IF ct.title.some /\ ct.title.val # <<>>
    THEN Append(Append(t, Node("div", CLASSNAME \o <<SP>> \o ct.klass, <<>>, parent)),
                Node("p", CLASSNAME_TITLE, ct.title.val, NewId(t)))
    ELSE Append(t, Node("div", CLASSNAME \o <<SP>> \o ct.klass, <<>>, parent))

MarkerResult(t, parent, m, d) ==
    [tree |-> CreateDiv(t, parent, get_class_and_title(m)), div |-> NewId(t),
     block |-> d.block, theRest |-> d.rest]

\* a variant of the marker case that leaves out line 123: the marker line
\* stays in the block
RunMarkerBuildKeepLine(t, parent, m, block) ==
    MarkerResult(t, parent, m, detab(block, tab_length))

\* run, marker case, lines 123-135: the first line is removed, the rest is
\* dedented, the container and its optional title are created
RunMarkerBuild(t, parent, m, block) ==
    MarkerResult(t, parent, m, detab(Drop(block, m.end), tab_length))

\* lines 138-142: the bare text of a list item is wrapped in a paragraph
WrapItem(t, sibling) ==
    IF t[sibling].tag \in {"li", "dd"} /\ t[sibling].text # <<>>
    THEN Append([t EXCEPT ![sibling].text = <<>>],
                Node("p", <<>>, t[sibling].text, sibling))
    ELSE t

ContinueResult(t, r) ==
    [tree |-> WrapItem(t, r.sibling), div |-> r.sibling, block |-> r.block,
     theRest |-> r.the_rest, cur |-> r.cur, ind |-> r.ind]

\* run, continuation case, lines 126 and 137-144: the cached target is
\* taken, the bare text of a list item is wrapped in a paragraph
RunContinue(cur, ind, t, parent, block) ==
    ContinueResult(t, parse_content(cur, ind, t, parent, block))

\* a variant of lines 148-152 that appends theRest to the pending blocks
RunAppendRest(blocks, theRest) ==
    IF theRest # <<>> THEN blocks \o <<theRest>> ELSE blocks

\* run, lines 148-152: blocks.insert(0, theRest) when theRest is not empty
RunInsertRest(blocks, theRest) ==
    IF theRest # <<>> THEN <<theRest>> \o blocks ELSE blocks

\* ------------------------------------------------------------- the host
\* BlockParser.parseBlocks(parent, blocks) is a frame of the call stack:
\* the parent being filled, the pending blocks, the position in the loop or
\* in run, and the locals of the frame's latest run (m, block, theRest).
\* mark is the number of tree nodes when that run was entered.

Frame(parent, blocks) ==
    [parent |-> parent, blocks |-> blocks, pc |-> "loop",
     m |-> NoMatch, block |-> <<>>, theRest |-> <<>>, mark |-> 0]

\* BlockParser.parseChunk(parent, text): parseBlocks(parent, text.split('\n\n'))
parseChunk(parent, text) == Frame(parent, SplitOn(text, <<NL, NL>>))

\* the handlers behind the admonition processor, reduced to the paragraph
\* handler: a blank block is dropped, any other becomes a new last child
OtherRun(t, parent, block) ==
    IF IsBlank(block) THEN t
    ELSE Append(t, Node("p", <<>>, block, parent))

VARIABLES
    tree,             \* the element tree
    stack,            \* the parseBlocks calls in progress, innermost last
    current_sibling,  \* AdmonitionProcessor.current_sibling
    content_indent    \* AdmonitionProcessor.content_indent

vars == <<tree, stack, current_sibling, content_indent>>

\* content_indent does not exist until parse_content first sets it
\* (__init__ sets content_indention)
Unset == -1

Top == stack[Len(stack)]
Depth == Len(stack)
SetTop(f) == [stack EXCEPT ![Len(stack)] = f]

\* the host asks the processor to test the head block
Tested(r) ==
    /\ current_sibling' = r.cur
    /\ content_indent' = r.ind
    /\ stack' = SetTop([Top EXCEPT !.pc = IF r.ret THEN "run" ELSE "other"])
    /\ UNCHANGED tree

Test ==
    /\ Top.pc = "loop"
    /\ Top.blocks # <<>>
    /\ Tested(test(current_sibling, content_indent, tree, Top.parent,
                   Head(Top.blocks)))

\* the test rejected: another handler of the host takes the head block
Other ==
    /\ Top.pc = "other"
    /\ tree' = OtherRun(tree, Top.parent, Head(Top.blocks))
    /\ stack' = SetTop([Top EXCEPT !.pc = "loop", !.blocks = Tail(Top.blocks)])
    /\ UNCHANGED <<current_sibling, content_indent>>

\* run, lines 117-122 for a marker after leading text, up to the call of
\* parseBlocks(parent, [block[:m.start()]])
EnterPre(block, m) ==
    /\ m.ok /\ m.start > 0
    /\ stack' = Append(
         SetTop([Top EXCEPT !.pc = "pre", !.blocks = Tail(Top.blocks),
                            !.m = m, !.block = block, !.mark = Len(tree)]),
         Frame(Top.parent, <<Take(block, m.start)>>))
    /\ UNCHANGED <<tree, current_sibling, content_indent>>

RunMarkerPre ==
    /\ Top.pc = "run"
    /\ EnterPre(Head(Top.blocks), RESearch(Head(Top.blocks)))

\* run, marker case from line 123 to the call of parseChunk(div, block)
Built(f, m, mark, b) ==
    /\ tree' = b.tree
    /\ stack' = Append(
         SetTop([f EXCEPT !.pc = "rest", !.m = m, !.block = b.block,
                          !.theRest = b.theRest, !.mark = mark]),
         parseChunk(b.div, b.block))
    /\ UNCHANGED <<current_sibling, content_indent>>

Build(f, m, block, mark) ==
    Built(f, m, mark, RunMarkerBuild(tree, f.parent, m, block))

\* run, marker at the start of the block
EnterMarker(block, m) ==
    /\ m.ok /\ m.start = 0
    /\ Build([Top EXCEPT !.blocks = Tail(Top.blocks)], m, block, Len(tree))

RunMarker ==
    /\ Top.pc = "run"
    /\ EnterMarker(Head(Top.blocks), RESearch(Head(Top.blocks)))

\* run, marker after leading text, once the leading text is parsed
RunMarkerResume ==
    /\ Top.pc = "pre"
    /\ Build(Top, Top.m, Top.block, Top.mark)

\* run, no marker: lines 126 and 137-146, to the call of parseChunk
Continued(m, c) ==
    /\ tree' = c.tree
    /\ current_sibling' = c.cur
    /\ content_indent' = c.ind
    /\ stack' = Append(
         SetTop([Top EXCEPT !.pc = "rest", !.blocks = Tail(Top.blocks),
                            !.m = m, !.block = c.block,
                            !.theRest = c.theRest, !.mark = Len(tree)]),
         parseChunk(c.div, c.block))

RunContinuation ==
    /\ Top.pc = "run"
    /\ ~RESearch(Head(Top.blocks)).ok
    /\ parse_content(current_sibling, content_indent, tree, Top.parent,
                     Head(Top.blocks)).sibling # None
    /\ Continued(NoMatch,
                 RunContinue(current_sibling, content_indent, tree,
                             Top.parent, Head(Top.blocks)))

\* run, lines 148-152, after parseChunk returned; back to the host's loop
RunRest ==
    /\ Top.pc = "rest"
    /\ stack' = SetTop([Top EXCEPT !.pc = "loop",
                                   !.blocks = RunInsertRest(Top.blocks, Top.theRest)])
    /\ UNCHANGED <<tree, current_sibling, content_indent>>

\* parseBlocks returns to run when its blocks are used up
Return ==
    /\ Top.pc = "loop"
    /\ Top.blocks = <<>>
    /\ Depth > 1
    /\ stack' = SubSeq(stack, 1, Depth - 1)
    /\ UNCHANGED <<tree, current_sibling, content_indent>>

Next ==
    \/ Test
    \/ Other
    \/ RunMarkerPre
    \/ RunMarker
    \/ RunMarkerResume
    \/ RunContinuation
    \/ RunRest
    \/ Return

\* ------------------------------------------------------- initial states
\* A parse starts on a document (the pending blocks of the outermost
\* parseBlocks) and a root that may already hold what earlier blocks of the
\* document produced.

MaxDocLines == 3
MaxTokens == 2

XLine(k) == Spaces(k * tab_length) \o <<"x">>
MarkerA == <<"!", "!", "!", SP, "a">>

\* the lines of the structural documents: text at indent 0..3 and a marker
StructLines == {XLine(0), XLine(1), XLine(2), XLine(3), MarkerA}

\* a marker line whose title has no closing quote
MalformedA == MarkerA \o <<SP, QT, "T">>

\* the lines that follow the marker of the nested documents: also a marker
\* indented under an admonition, text indented less than one width and a
\* marker line with a malformed title
NestedLines ==
    StructLines \cup {Spaces(tab_length) \o MarkerA, <<SP, SP, "x">>, MalformedA}

RECURSIVE BuildDoc(_)
\* items: <<line, break>>; break starts a new block before the line
BuildDoc(items) ==
    IF items = <<>> THEN <<>>
    ELSE LET n == Len(items)
             init == BuildDoc(SubSeq(items, 1, n - 1))
             line == items[n][1]
         IN  IF init = <<>> \/ items[n][2]
             THEN Append(init, line)
             ELSE [init EXCEPT ![Len(init)] = @ \o <<NL>> \o line]

StructDocs ==
    UNION {{BuildDoc(f) : f \in {g \in [1..n -> StructLines \X BOOLEAN] : ~g[1][2]}}
           : n \in 1..MaxDocLines}

\* documents that open an admonition and go on with up to MaxDocLines - 1
\* lines
NestedDocs ==
    UNION {{BuildDoc(f) : f \in {g \in [1..n -> NestedLines \X BOOLEAN] :
                                     g[1] = <<MarkerA, FALSE>>}}
           : n \in 1..MaxDocLines}

\* marker lines built from their parts
Tokens == {<<"a">>, <<"a", "B">>, <<"b", "-", "c">>}
Separators == {<<SP>>, <<SP, SP>>, <<SP, SP, SP>>}

RECURSIVE ClassStrings(_)
ClassStrings(n) ==
    IF n = 1 THEN Tokens
    ELSE {c \o sep \o tok : c \in ClassStrings(n - 1), sep \in Separators,
                            tok \in Tokens}

AllClassStrings == UNION {ClassStrings(n) : n \in 1..MaxTokens}

Titles == {<<>>, <<"T">>, <<"t", SP, "u">>}
Quoted(title) == <<SP, QT>> \o title \o <<QT>>
Unterminated(title) == <<SP, QT>> \o title

MkMarker(lead, cls, titlepart, trail) ==
    <<"!", "!", "!">> \o lead \o cls \o titlepart \o trail

TitleParts ==
    {<<>>} \cup {Quoted(x) : x \in Titles} \cup {Unterminated(x) : x \in Titles}

MarkerLines ==
    {MkMarker(lead, cls, tp, trail) :
        lead \in {<<>>, <<SP>>}, cls \in AllClassStrings,
        tp \in TitleParts, trail \in {<<>>, <<SP>>}}

MarkerDocs == {<<l>> : l \in MarkerLines}

Txt(c) == <<c>>
Root == Node("div", <<>>, <<>>, 0)
Adm(parent) == Node("div", CLASSNAME \o <<SP, "a">>, <<>>, parent)
TitleP(parent) == Node("p", CLASSNAME_TITLE, <<"A">>, parent)

\* the trees a parse can have built before the pending blocks
TreeEmpty == <<Root>>
TreePara == <<Root, Node("p", <<>>, Txt("x"), 1)>>
TreeAdm == <<Root, Adm(1), TitleP(2)>>
TreeAdmPara == TreeAdm \o <<Node("p", <<>>, Txt("x"), 2)>>
TreeAdmList == TreeAdm \o <<Node("ul", <<>>, <<>>, 2), Node("li", <<>>, Txt("i"), 4)>>
TreeAdmNested ==
    TreeAdmList \o <<Node("ul", <<>>, <<>>, 5), Node("li", <<>>, Txt("j"), 6)>>
TreeAdmDefList ==
    TreeAdm \o <<Node("dl", <<>>, <<>>, 2), Node("dt", <<>>, Txt("t"), 4),
                 Node("dd", <<>>, Txt("d"), 4)>>
TreeAdmLoose ==
    <<Root, Adm(1), Node("ol", <<>>, <<>>, 2), Node("li", <<>>, <<>>, 3),
      Node("p", <<>>, Txt("i"), 4)>>

InitTrees == {TreeEmpty, TreePara, TreeAdm, TreeAdmPara, TreeAdmList,
              TreeAdmNested, TreeAdmDefList, TreeAdmLoose}

Init ==
    /\ \/ tree \in InitTrees /\ \E doc \in StructDocs : stack = <<Frame(1, doc)>>
       \/ tree = TreeEmpty
          /\ \E doc \in MarkerDocs \cup NestedDocs : stack = <<Frame(1, doc)>>
    /\ current_sibling = None
    /\ content_indent = Unset

Spec == Init /\ [][Next]_vars

\* A caller that does not keep to the host's pairing of test and run: after
\* an accepting test it may leave the block to another handler and go on
\* with the next block, without calling run.
Abandon ==
    /\ Top.pc = "run"
    /\ stack' = SetTop([Top EXCEPT !.pc = "loop", !.blocks = Tail(Top.blocks)])
    /\ UNCHANGED <<tree, current_sibling, content_indent>>

\* run, no marker, when parse_content returns no sibling: line 138 reads
\* sibling.tag of None and raises; the fields are as parse_content left them
Raised(r) ==
    /\ r.sibling = None
    /\ stack' = SetTop([Top EXCEPT !.pc = "raised", !.blocks = Tail(Top.blocks)])
    /\ current_sibling' = r.cur
    /\ content_indent' = r.ind
    /\ UNCHANGED tree

RunRaises ==
    /\ Top.pc = "run"
    /\ ~RESearch(Head(Top.blocks)).ok
    /\ Raised(parse_content(current_sibling, content_indent, tree, Top.parent,
                            Head(Top.blocks)))

LooseNext ==
    \/ Next
    \/ Abandon
    \/ RunRaises

LooseSpec == Init /\ [][LooseNext]_vars

\* --------------------------------------------------------- properties
\* Vocabulary of the statements, written from the data model: an
\* admonition container is a div whose class tokens include "admonition";
\* the indentation of a block is the number of spaces its first line
\* starts with.

Below == IF Depth >= 2 THEN stack[Depth - 1] ELSE Frame(None, <<>>)
HeadBlock == IF Top.blocks # <<>> THEN Head(Top.blocks) ELSE <<>>

IsAdmonition(t, n) ==
    /\ n # None
    /\ t[n].tag = "div"
    /\ CLASSNAME \in Range(SplitOn(t[n].class, <<SP>>))

Indentation(block) == RunSpace(block, 0)
HasMarker(block) == RESearch(block).ok

IsList(t, n) == n # None /\ t[n].tag \in ListTags /\ HasChildren(t, n)

RECURSIVE TargetAfter(_, _, _, _)
\* the insertion point for a block indented by n spaces, from candidate c
\* reached by k - 1 descents: one more descent when c's latest child is a
\* list and the block is indented k + 1 widths
TargetAfter(t, c, k, n) ==
    IF IsList(t, lastChild(t, c)) /\ n >= (k + 1) * tab_length
    THEN TargetAfter(t, lastChild(t, lastChild(t, c)), k + 1, n)
    ELSE [target |-> c, width |-> k * tab_length]

NoTarget == [target |-> None, width |-> 0]

\* the continuation target of a block under a parent: none unless the
\* parent's latest child is an admonition container and the block is
\* indented at least one width
Continuation(t, parent, block) ==
    IF IsAdmonition(t, lastChild(t, parent)) /\ Indentation(block) >= tab_length
    THEN TargetAfter(t, lastChild(t, parent), 1, Indentation(block))
    ELSE NoTarget

\* a test has just answered for the head block of the innermost call
Answered == Top.pc \in {"run", "other"}
Accepted == Top.pc = "run"

\* the lines of a block that are indented by n spaces, up to the first that
\* is not, and the remaining lines
RECURSIVE IndentedCount(_, _)
IndentedCount(ls, n) ==
    IF ls # <<>> /\ Indentation(Head(ls)) >= n
    THEN 1 + IndentedCount(Tail(ls), n) ELSE 0

HeadLines(block, n) == Take(Lines(block), IndentedCount(Lines(block), n))
TailLines(block, n) == Drop(Lines(block), IndentedCount(Lines(block), n))
Dedented(ls, n) == [i \in 1..Len(ls) |-> Drop(ls[i], n)]

\* C1: current_sibling is set only between a test that accepted the head
\* block as a continuation and the run for that block: in every other
\* state, the states after a run and the states of the nested parsing a
\* run starts included, it is empty
C1_OneShotHandoff ==
    current_sibling # None =>
        /\ Top.pc = "run"
        /\ Top.blocks # <<>>
        /\ ~HasMarker(HeadBlock)

\* C1 witness: a nested parse holds an accepted continuation
C1_Witness ==
    /\ current_sibling # None
    /\ Depth >= 2
    /\ Below.pc = "rest"

\* C2: a test accepts the head block exactly when the block holds a marker
\* or has a continuation target under the parent, and an acceptance of a
\* marker-less block leaves the target and its indent width in the
\* processor's fields
C2_AcceptIffMarkerOrTarget ==
    Answered =>
        /\ Accepted <=> \/ HasMarker(HeadBlock)
                        \/ Continuation(tree, Top.parent, HeadBlock).target # None
        /\ (Accepted /\ ~HasMarker(HeadBlock)) =>
              /\ current_sibling = Continuation(tree, Top.parent, HeadBlock).target
              /\ content_indent = Continuation(tree, Top.parent, HeadBlock).width

\* the processor's fields, the tree and the pending blocks of every call
\* are as before the step; only the position of the innermost call moved
OnlyAnswered ==
    /\ UNCHANGED <<tree, current_sibling, content_indent>>
    /\ Depth' = Depth
    /\ \A d \in 1..Depth : stack'[d].parent = stack[d].parent
                           /\ stack'[d].blocks = stack[d].blocks

\* C3: a test of a block with no marker and no continuation target
\* rejects, and leaves the fields, the tree and the pending blocks as they
\* were
C3_RejectLeavesAll ==
    [][(/\ Top.pc = "loop"
        /\ Top.blocks # <<>>
        /\ current_sibling = None
        /\ ~HasMarker(HeadBlock)
        /\ Continuation(tree, Top.parent, HeadBlock).target = None)
       => (stack'[Depth].pc = "other" /\ OnlyAnswered)]_vars

\* frames under the innermost call are not touched by a step
LowerFramesKept ==
    \A d \in 1..(Depth - 1) : d <= Depth' /\ stack'[d] = stack[d]

\* C4: run takes the head block off the pending blocks, nothing else
\* changes them while run is in progress, and at its end a non-empty tail
\* is inserted in front of them (an empty tail leaves them as they are)
C4_TailInsertedFirst ==
    [][/\ LowerFramesKept
       /\ Top.pc = "run" => stack'[Depth].blocks = Tail(Top.blocks)
       /\ Top.pc = "pre" => stack'[Depth].blocks = Top.blocks
       /\ Top.pc = "rest" =>
            /\ stack'[Depth].pc = "loop"
            /\ stack'[Depth].parent = Top.parent
            /\ stack'[Depth].blocks =
                 IF Top.theRest = <<>> THEN Top.blocks
                 ELSE <<Top.theRest>> \o Top.blocks]_vars

\* C4 witness: a run has ended and its tail is the head of the pending
\* blocks, in front of a block that was pending before
C4_Witness ==
    /\ Top.pc = "loop"
    /\ Top.theRest # <<>>
    /\ Len(Top.blocks) >= 2
    /\ Head(Top.blocks) = Top.theRest

\* C5: a continuation run parses exactly the leading lines indented by the
\* cached width, dedented, under the cached target; the remaining lines are
\* kept verbatim as the tail, which goes back in front of the pending blocks
\* of the same parent; the two parts together are the lines of the block
C5_IndentedHeadUnindentedTail ==
    [][/\ (Top.pc = "run" /\ current_sibling # None) =>
            /\ Depth' = Depth + 1
            /\ stack'[Depth'].parent = current_sibling
            /\ stack'[Depth'].pc = "loop"
            /\ stack'[Depth'].blocks =
                 <<Unlines(Dedented(HeadLines(HeadBlock, content_indent),
                                    content_indent))>>
            /\ stack'[Depth].parent = Top.parent
            /\ stack'[Depth].theRest =
                 Unlines(TailLines(HeadBlock, content_indent))
            /\ HeadLines(HeadBlock, content_indent)
                 \o TailLines(HeadBlock, content_indent) = Lines(HeadBlock)
            /\ HeadLines(HeadBlock, content_indent) # <<>>
            /\ \A i \in (Len(tree) + 1)..Len(tree') :
                  tree'[i].text \in {tree[n].text : n \in 1..Len(tree)}
       /\ (Top.pc = "rest" /\ ~Top.m.ok /\ Top.theRest # <<>>) =>
            /\ stack'[Depth].parent = Top.parent
            /\ Head(stack'[Depth].blocks) = Top.theRest]_vars

\* C5 witness: a continuation run has split its block into an indented
\* head, being parsed under the target, and a non-empty tail
C5_Witness ==
    /\ Depth >= 2
    /\ Below.pc = "rest"
    /\ ~Below.m.ok
    /\ Below.theRest # <<>>
    /\ Top.pc = "loop" /\ Top.blocks # <<>>

\* the nodes created since the latest run of the innermost call was entered
NewNodes == (Top.mark + 1)..Len(tree)

\* the step appends an admonition container as the last child of the
\* innermost call's parent
ContainerAppended ==
    /\ Len(tree') > Len(tree)
    /\ IsAdmonition(tree', Len(tree) + 1)
    /\ tree'[Len(tree) + 1].parent = Top.parent
    /\ \A i \in 1..Len(tree) : tree'[i] = tree[i]
    /\ \A i \in Children(tree', Top.parent) : i <= Len(tree) + 1

\* the text before the marker of the block a run is working on
LeadingText == Take(Top.block, Top.m.start)

\* the latest child the parent had when the run was entered
PriorLast ==
    LET cs == {i \in 1..Top.mark : tree[i].parent = Top.parent}
    IN  IF cs = {} THEN None ELSE CHOOSE i \in cs : \A j \in cs : j <= i

MentionsAdmonition(t, n) ==
    \E k \in 0..Len(t[n].class) : Slice(t[n].class, k, k + Len(CLASSNAME)) = CLASSNAME

RECURSIVE Under(_, _, _)
\* node n is a descendant of node a
Under(t, n, a) == n # None /\ (t[n].parent = a \/ Under(t, t[n].parent, a))

LeadingTextContinues ==
    /\ PriorLast # None
    /\ MentionsAdmonition(tree, PriorLast)
    /\ Indentation(LeadingText) >= tab_length

OneWidthUnderAdmonition ==
    /\ Top.blocks # <<>>
    /\ IsAdmonition(tree, lastChild(tree, Top.parent))
    /\ ~HasMarker(HeadBlock)
    /\ Indentation(HeadBlock) >= tab_length
    /\ Indentation(HeadBlock) < 2 * tab_length

\* the step is the run's call of the nested parse of the head block,
\* dedented by width, under target
ParsedUnder(target, width) ==
    /\ Depth' = Depth + 1
    /\ stack'[Depth'].parent = target
    /\ stack'[Depth'].pc = "loop"
    /\ stack'[Depth'].blocks =
         <<Unlines(Dedented(HeadLines(HeadBlock, width), width))>>

\* C7: a marker-less block indented one width after an admonition is
\* accepted, and run parses it, dedented one width, under that admonition;
\* the run adds no child to the parent
C7_OneWidthIsContent ==
    [][/\ (Top.pc = "loop" /\ OneWidthUnderAdmonition) =>
            /\ stack'[Depth].pc = "run"
            /\ current_sibling' = lastChild(tree, Top.parent)
            /\ content_indent' = tab_length
       /\ (Top.pc = "run" /\ OneWidthUnderAdmonition) =>
            /\ ParsedUnder(lastChild(tree, Top.parent), tab_length)
            /\ tree' = tree
       /\ (Top.pc = "rest" /\ ~Top.m.ok) =>
            \A j \in NewNodes : tree[j].parent # Top.parent]_vars

\* C7 witness: a run is parsing a continuation under an admonition that is
\* the parent's latest child
C7_Witness ==
    /\ Depth >= 2
    /\ Below.pc = "rest" /\ ~Below.m.ok
    /\ Top.parent = lastChild(tree, Below.parent)
    /\ IsAdmonition(tree, Top.parent)
    /\ Top.pc = "loop" /\ Top.blocks = <<XLine(0)>>

\* the admonition the parent ends with, its last child, and that child's
\* last item
OpenAdmonition == lastChild(tree, Top.parent)
OuterList == lastChild(tree, OpenAdmonition)
OuterItem == lastChild(tree, OuterList)
InnerList == lastChild(tree, OuterItem)
InnerItem == lastChild(tree, InnerList)

\* the marker-less head block follows an admonition whose last child is a
\* list with at least one item
ListUnderAdmonition ==
    /\ Top.pc \in {"loop", "run"}
    /\ Top.blocks # <<>>
    /\ IsAdmonition(tree, OpenAdmonition)
    /\ IsList(tree, OuterList)
    /\ OuterItem # None
    /\ ~HasMarker(HeadBlock)

\* the item has a nested list as its last child, with at least one item
HasInnerList == IsList(tree, InnerList) /\ InnerItem # None

\* first case of C8: two widths, and the descent stops at the list's item
TwoWidthsCase ==
    /\ ListUnderAdmonition
    /\ Indentation(HeadBlock) >= 2 * tab_length
    /\ ~(Indentation(HeadBlock) >= 3 * tab_length /\ HasInnerList)

\* second case of C8: three widths and a nested list, where the descent
\* stops at the nested list's item
ThreeWidthsCase ==
    /\ ListUnderAdmonition
    /\ Indentation(HeadBlock) >= 3 * tab_length
    /\ HasInnerList
    /\ ~(Indentation(HeadBlock) >= 4 * tab_length
           /\ IsList(tree, lastChild(tree, InnerItem))
           /\ lastChild(tree, lastChild(tree, InnerItem)) # None)

\* the tree after bare text of the item was moved into a new paragraph
TextWrapped(item) ==
    Append([tree EXCEPT ![item].text = <<>>],
           Node("p", <<>>, tree[item].text, item))

\* what test and run do with a block whose target is item at width
DescendsTo(item, width) ==
    /\ Top.pc = "loop" =>
          /\ stack'[Depth].pc = "run"
          /\ current_sibling' = item
          /\ content_indent' = width
    /\ Top.pc = "run" =>
          /\ ParsedUnder(item, width)
          /\ (tree[item].text = <<>>) => tree' = tree
          /\ (tree[item].text # <<>> /\ ~HasChildren(tree, item)) =>
                tree' = TextWrapped(item)

\* C8: after an admonition ending in a list, a marker-less block of two
\* widths is parsed, dedented two widths, under the list's last item, whose
\* bare text is first moved into a new paragraph child; with three widths
\* and a nested list ending that item, it is parsed, dedented three widths,
\* under the nested list's last item
C8_ListDescent ==
    [][/\ TwoWidthsCase => DescendsTo(OuterItem, 2 * tab_length)
       /\ ThreeWidthsCase => DescendsTo(InnerItem, 3 * tab_length)]_vars

\* C8 witness: a block was parsed under the last item of a nested list, and
\* the item's bare text had been moved into a paragraph
C8_Witness ==
    /\ Depth >= 2
    /\ Below.pc = "rest" /\ ~Below.m.ok
    /\ tree[Top.parent].tag = "li"
    /\ tree[tree[tree[Top.parent].parent].parent].tag = "li"
    /\ tree[Top.parent].text = <<>>
    /\ \E p \in Children(tree, Top.parent) :
          tree[p].tag = "p" /\ tree[p].text # <<>> /\ p > Below.mark
    /\ Top.pc = "loop" /\ Top.blocks = <<XLine(0)>>

\* C9: a marker-less block indented less than one width after an admonition
\* is rejected by test, and nothing but the rejection happens: the tree,
\* the pending blocks and the cached target and indent are as before
C9_UnderIndentedRejected ==
    [][(/\ Top.pc = "loop" /\ Top.blocks # <<>>
        /\ current_sibling = None
        /\ IsAdmonition(tree, lastChild(tree, Top.parent))
        /\ ~HasMarker(HeadBlock)
        /\ Indentation(HeadBlock) < tab_length)
         => (stack'[Depth].pc = "other" /\ OnlyAnswered)]_vars

\* C9 witness: a non-blank marker-less block indented less than one width
\* was rejected after an admonition
C9_Witness ==
    /\ Top.pc = "other"
    /\ IsAdmonition(tree, lastChild(tree, Top.parent))
    /\ ~HasMarker(HeadBlock)
    /\ ~IsBlank(HeadBlock)
    /\ Indentation(HeadBlock) < tab_length
    /\ current_sibling = None

\* the marker lines of the matched form: a class string, then nothing or a
\* quoted title
WellFormedMarkers ==
    {MkMarker(lead, cls, tp, trail) :
        lead \in {<<>>, <<SP>>}, cls \in AllClassStrings,
        tp \in {<<>>} \cup {Quoted(x) : x \in Titles},
        trail \in {<<>>, <<SP>>}}

\* the first class token (class tokens are lowercase) with its first letter
\* capitalized, for each way the marker writes it
DefaultTitle ==
    [tok \in Tokens |->
        CASE tok = <<"a">> -> <<"A">>
          [] tok = <<"a", "B">> -> <<"A", "b">>
          [] tok = <<"b", "-", "c">> -> <<"B", "-", "c">>
          [] OTHER -> <<>>]

EndsWith(s, e) == Len(s) >= Len(e) /\ Drop(s, Len(s) - Len(e)) = e

\* the block whose marker the step builds the container for, and the line
\* number of the marker in it
MarkerBlock == IF Top.pc = "pre" THEN Top.block ELSE HeadBlock
MarkerLine ==
    LET ls == Lines(MarkerBlock)
        is == {i \in 1..Len(ls) : ls[i] \in WellFormedMarkers}
    IN  IF is = {} THEN 0 ELSE CHOOSE i \in is : \A j \in is : i <= j

\* the step creates the container of a marker
Creating ==
    \/ Top.pc = "pre"
    \/ Top.pc = "run" /\ Top.blocks # <<>> /\ MarkerLine = 1

\* the step creates a container whose first child is a title with text x
TitleIs(x) ==
    /\ Len(tree') = Len(tree) + 2
    /\ IsAdmonition(tree', Len(tree) + 1)
    /\ tree'[Len(tree) + 2] = Node("p", CLASSNAME_TITLE, x, Len(tree) + 1)

\* the step creates a container without children
NoTitle ==
    /\ Len(tree') = Len(tree) + 1
    /\ IsAdmonition(tree', Len(tree) + 1)

\* C10: the container of a marker without a quoted title gets a title that
\* is the first class token with its first letter capitalized; with the
\* empty quoted title it gets no title child; with a non-empty quoted title
\* it gets a title with exactly that text
C10_TitleThreeWay ==
    [][(Creating /\ MarkerLine > 0) =>
         LET ml == Lines(MarkerBlock)[MarkerLine]
         IN  \A lead \in {<<>>, <<SP>>}, tok \in Tokens, trail \in {<<>>, <<SP>>} :
               (/\ StartsWith(ml, <<"!", "!", "!">> \o lead \o tok)
                /\ Slice(ml, 3 + Len(lead) + Len(tok), 4 + Len(lead) + Len(tok))
                      \in {<<>>, <<SP>>}) =>
                 /\ (Find(ml, <<QT>>) = -1) => TitleIs(DefaultTitle[tok])
                 /\ EndsWith(ml, Quoted(<<>>) \o trail) => NoTitle
                 /\ \A x \in Titles \ {<<>>} :
                       EndsWith(ml, Quoted(x) \o trail) => TitleIs(x)]_vars

\* C10 witness: a marker with several class tokens and no quoted title got
\* the capitalized first token as its title
C10_Witness ==
    \E d \in 1..Len(tree) :
        /\ tree[d].class = CLASSNAME \o <<SP>> \o <<"a", "b", " ", "b", "-", "c">>
        /\ d < Len(tree)
        /\ tree[d + 1] = Node("p", CLASSNAME_TITLE, <<"A", "b">>, d)

\* node c is a title child: a paragraph tagged with the title class
IsTitle(t, c) == t[c].tag = "p" /\ t[c].class = CLASSNAME_TITLE

\* in tree t every title child of an admonition container is the
\* container's first child
TitleFirst(t) ==
    \A d \in 1..Len(t) : IsAdmonition(t, d) =>
        \A c \in Children(t, d) :
            IsTitle(t, c) => \A j \in Children(t, d) : c <= j

\* the step keeps every title child as it is and where it is
TitlesKept ==
    \A c \in 1..Len(tree) :
        (IsTitle(tree, c) /\ IsAdmonition(tree, tree[c].parent)) =>
            /\ Len(tree') >= c
            /\ tree'[c] = tree[c]
            /\ tree'[tree[c].parent] = tree[tree[c].parent]

\* C11: in every reachable tree a title child of an admonition container is
\* the container's first child, tagged admonition-title; no step removes or
\* changes it, and whatever a step appends to the container comes after it
C11_TitleStaysFirst ==
    [][TitleFirst(tree) /\ TitleFirst(tree') /\ TitlesKept]_vars

\* C11 witness: a continuation run appended content to a container after
\* its title
C11_Witness ==
    /\ Depth >= 2
    /\ Below.pc = "rest" /\ ~Below.m.ok
    /\ IsAdmonition(tree, Top.parent)
    /\ \E c, j \in Children(tree, Top.parent) :
          /\ IsTitle(tree, c) /\ c <= Below.mark
          /\ j > Below.mark /\ c < j

\* a class token in lower case, for each way the marker writes it
LowerToken ==
    [tok \in Tokens |->
        CASE tok = <<"a">> -> <<"a">>
          [] tok = <<"a", "B">> -> <<"a", "b">>
          [] tok = <<"b", "-", "c">> -> <<"b", "-", "c">>
          [] OTHER -> <<>>]

RECURSIVE Normalized(_)
\* the class strings of n tokens as the marker writes them (raw), each with
\* its tokens in lower case, in order, one space apart (norm)
Normalized(n) ==
    IF n = 1 THEN {[raw |-> tok, norm |-> LowerToken[tok]] : tok \in Tokens}
    ELSE {[raw |-> c.raw \o sep \o tok, norm |-> c.norm \o <<SP>> \o LowerToken[tok]] :
             c \in Normalized(n - 1), sep \in Separators, tok \in Tokens}

AllNormalized == UNION {Normalized(n) : n \in 1..MaxTokens}

\* the marker line ml has the class string raw: what follows it is the end
\* of the line, trailing blank or a quoted title
HasClassString(ml, lead, raw) ==
    /\ StartsWith(ml, <<"!", "!", "!">> \o lead \o raw)
    /\ LET rest == Drop(ml, 3 + Len(lead) + Len(raw))
       IN  rest = <<>> \/ rest = <<SP>> \/ StartsWith(rest, <<SP, QT>>)

\* the class string stored in the container the step creates, after the
\* container's own class name
StoredClass == Drop(tree'[Len(tree) + 1].class, Len(CLASSNAME) + 1)

\* C12: the class string stored for a marker is the marker's class string
\* in lower case with every run of two or more spaces replaced by one
\* space, tokens in order; normalizing the stored string again returns it
C12_ClassNormalized ==
    [][(Creating /\ MarkerLine > 0) =>
         LET ml == Lines(MarkerBlock)[MarkerLine]
         IN  /\ \A c \in AllNormalized, lead \in {<<>>, <<SP>>} :
                  HasClassString(ml, lead, c.raw) =>
                     /\ Len(tree') > Len(tree)
                     /\ tree'[Len(tree) + 1].class = CLASSNAME \o <<SP>> \o c.norm
             /\ ReSpacesSub(Lower(StoredClass)) = StoredClass]_vars

\* C12 witness: a container was created for a marker whose class tokens are
\* written in mixed case three spaces apart
C12_Witness ==
    /\ Depth >= 2
    /\ Below.pc = "rest" /\ Below.m.ok
    /\ Below.m.g1 = <<"a", "B", SP, SP, SP, "b", "-", "c">>
    /\ tree[Top.parent].class = CLASSNAME \o <<SP, "a", "b", SP, "b", "-", "c">>

\* the marker lines with a malformed title: an opening quote and no closing
\* quote on the line
MalformedMarkers ==
    {MkMarker(lead, cls, Unterminated(x), trail) :
        lead \in {<<>>, <<SP>>}, cls \in AllClassStrings,
        x \in Titles, trail \in {<<>>, <<SP>>}}

\* the head block has a marker line with a malformed title and no marker
\* line of the matched form
MalformedHead ==
    /\ Top.blocks # <<>>
    /\ \E i \in 1..Len(Lines(HeadBlock)) : Lines(HeadBlock)[i] \in MalformedMarkers
    /\ \A i \in 1..Len(Lines(HeadBlock)) : Lines(HeadBlock)[i] \notin WellFormedMarkers

\* C13: a marker line with a malformed title is no match: test accepts its
\* block only as a continuation (with a cached target), and when it rejects
\* nothing changes; no step creates an admonition container for the block
C13_MalformedNoMatch ==
    [][(Top.pc \in {"loop", "run", "other"} /\ MalformedHead) =>
         /\ ~HasMarker(HeadBlock)
         /\ Top.pc = "loop" =>
               \/ stack'[Depth].pc = "other" /\ OnlyAnswered
               \/ stack'[Depth].pc = "run" /\ current_sibling' # None
         /\ \A j \in (Len(tree) + 1)..Len(tree') : ~IsAdmonition(tree', j)]_vars

\* C13 witness: a block that is a marker line with a malformed title became
\* a paragraph of the root
C13_Witness ==
    /\ Top.pc = "loop" /\ Depth = 1
    /\ tree = <<Root, Node("p", <<>>, MalformedA, 1)>>

RECURSIVE Descents(_, _, _)
\* the number of descents from candidate first to target: a descent goes
\* from an element to the last item of its last child, a list
Descents(t, target, first) ==
    IF target = first \/ target = None THEN 0
    ELSE 1 + Descents(t, t[t[target].parent].parent, first)

\* C14: a continuation reported after d descents has the cached indent
\* (d + 1) widths, and the raw block begins with at least that many spaces;
\* the run that follows dedents the raw block by the cached indent and
\* thereby takes at least its first line
C14_IndentAdditive ==
    [][/\ (/\ Top.pc = "loop" /\ Top.blocks # <<>>
           /\ current_sibling = None /\ current_sibling' # None) =>
            LET d == Descents(tree, current_sibling', lastChild(tree, Top.parent))
            IN  /\ content_indent' = (d + 1) * tab_length
                /\ Indentation(HeadBlock) >= (d + 1) * tab_length
       /\ (Top.pc = "run" /\ current_sibling # None) =>
            /\ ParsedUnder(current_sibling, content_indent)
            /\ IndentedCount(Lines(HeadBlock), content_indent) >= 1
            /\ Len(stack'[Depth].theRest) < Len(HeadBlock)]_vars

\* C14 witness: a continuation was reported after two descents, with three
\* widths cached
C14_Witness ==
    /\ Top.pc = "run"
    /\ current_sibling # None
    /\ Descents(tree, current_sibling, lastChild(tree, Top.parent)) = 2
    /\ content_indent = 3 * tab_length

\* a handler with an explicit handoff: run receives the pair (target,
\* width) test returned for the head block; the tree and the call stack
\* after its step to the nested parse
ExplicitRun(target, width) ==
    LET d == detab(HeadBlock, width)
    IN  [tree |-> IF tree[target].tag \in {"li", "dd"} /\ tree[target].text # <<>>
                  THEN TextWrapped(target) ELSE tree,
         stack |-> Append(
             SetTop([Top EXCEPT !.pc = "rest", !.blocks = Tail(Top.blocks),
                                !.m = NoMatch, !.block = d.block,
                                !.theRest = d.rest, !.mark = Len(tree)]),
             parseChunk(target, d.block))]

\* C15: the pair cached by an accepting test is the pair the locator
\* reports for the head block and parent, it is set only by test and
\* cleared only by the run on that block, which leaves the tree and the
\* pending blocks as a run that is handed the pair would
C15_HandoffExplicit ==
    [][/\ (Top.pc = "run" /\ ~HasMarker(HeadBlock)) =>
            LET l == Locate(tree, Top.parent, HeadBlock)
            IN  /\ l.sibling # None
                /\ current_sibling = l.sibling
                /\ content_indent = l.indent
                /\ tree' = ExplicitRun(l.sibling, l.indent).tree
                /\ stack' = ExplicitRun(l.sibling, l.indent).stack
                /\ current_sibling' = None
       /\ (current_sibling = None /\ current_sibling' # None) =>
            Top.pc = "loop" /\ stack'[Depth].pc = "run"
       /\ (current_sibling # None /\ current_sibling' # current_sibling) =>
            Top.pc = "run"]_vars

\* C15 witness: a run consumed a cached pair of two widths and left a tail
\* for the pending blocks
C15_Witness ==
    /\ Depth >= 2
    /\ Below.pc = "rest" /\ ~Below.m.ok
    /\ current_sibling = None /\ content_indent = 0
    /\ tree[Top.parent].tag \in {"li", "dd"}
    /\ Below.theRest # <<>>
    /\ Top.pc = "loop" /\ Top.blocks # <<>>

\* the outermost parseBlocks has used up its blocks
Finished == Depth = 1 /\ Top.pc = "loop" /\ Top.blocks = <<>>

\* what a step of run does to the pending blocks: the head block is
\* removed, the tail kept for re-insertion is shorter than the block the
\* run removed, at most that one tail is re-inserted, and the text handed
\* to the host ahead of a marker is shorter still and holds no marker
RunConsumes ==
    /\ Top.pc = "run" =>
          /\ stack'[Depth].blocks = Tail(Top.blocks)
          /\ stack'[Depth].pc = "rest" =>
                Len(stack'[Depth].theRest) < Len(HeadBlock)
          /\ stack'[Depth].pc = "pre" =>
                /\ stack'[Depth + 1].blocks = <<Take(HeadBlock, RESearch(HeadBlock).start)>>
                /\ ~HasMarker(stack'[Depth + 1].blocks[1])
                /\ Len(stack'[Depth + 1].blocks[1]) < Len(HeadBlock)
    /\ Top.pc = "pre" =>
          /\ stack'[Depth].blocks = Top.blocks
          /\ Len(stack'[Depth].theRest) < Len(Top.block)
    /\ Top.pc = "rest" =>
          /\ Len(stack'[Depth].blocks) <= Len(Top.blocks) + 1
          /\ stack'[Depth].blocks \in {Top.blocks, <<Top.theRest>> \o Top.blocks}

\* the work a pending text stands for
TextWeight(s) == 8 * (Len(s) + 1)

RECURSIVE BlocksWeight(_)
BlocksWeight(bs) ==
    IF bs = <<>> THEN 0 ELSE TextWeight(Head(bs)) + BlocksWeight(Tail(bs))

\* the work left in a call of parseBlocks: its pending blocks, the tail its
\* run keeps for re-insertion, the marker and content its run has yet to
\* handle after the leading text, and its position
FrameWeight(f) ==
    BlocksWeight(f.blocks)
    + CASE f.pc = "loop" -> 2
        [] f.pc = "run" -> 1
        [] f.pc = "other" -> 1
        [] f.pc = "rest" -> 3 + (IF f.theRest # <<>> THEN TextWeight(f.theRest) ELSE 0)
        [] f.pc = "pre" -> 4 + TextWeight(Drop(f.block, f.m.start)) - 16

RECURSIVE StackWeight(_)
StackWeight(st) ==
    IF st = <<>> THEN 0 ELSE FrameWeight(Head(st)) + StackWeight(Tail(st))

\* the parse is not stuck: it has returned or the innermost call has a step
CanStep ==
    \/ Finished
    \/ Top.pc = "loop" /\ (Top.blocks # <<>> \/ Depth > 1)
    \/ Top.pc \in {"run", "other"} /\ Top.blocks # <<>>
    \/ Top.pc \in {"pre", "rest"}

\* C16: every run removes the head block and re-inserts at most one tail,
\* shorter than the removed block, and the text before a marker holds no
\* marker; every step lessens the work left, a natural number, and leaves
\* the parse returned or able to step, so the parse of a finite queue of
\* finite blocks ends with the queue empty
C16_QueueEmpties ==
    [][/\ RunConsumes
       /\ StackWeight(stack') < StackWeight(stack)
       /\ StackWeight(stack') >= 0
       /\ CanStep']_vars

\* C16 witness: the parse of a document that made run re-insert a tail has
\* used up its blocks
C16_Witness ==
    /\ Finished
    /\ \E d \in 1..Len(tree) :
          /\ IsAdmonition(tree, d) /\ tree[d].parent = 1
          /\ \E c \in Children(tree, d) : ~IsTitle(tree, c)
          /\ \E j \in Children(tree, 1) : j > d /\ tree[j].tag = "p"

\* C17: when a continuation run wraps the bare text of a list item into a
\* paragraph, the paragraph is a child of the item that holds the text and
\* precedes every child the item already had
C17_WrapParagraphFirst ==
    [][(/\ Top.pc = "run" /\ current_sibling # None
        /\ tree[current_sibling].tag \in {"li", "dd"}
        /\ tree[current_sibling].text # <<>>) =>
          \E p \in Children(tree', current_sibling) :
             /\ p > Len(tree)
             /\ tree'[p] = Node("p", <<>>, tree[current_sibling].text, current_sibling)
             /\ \A c \in Children(tree, current_sibling) : p < c]_vars

\* C18: the answer of test is the answer a processor without cached state
\* gives for the same parent and block, also after an accepting test that
\* no run followed; and a run without marker parses its block under the
\* target found for that block and parent
C18_NoStaleState ==
    [][/\ (Top.pc = "loop" /\ Top.blocks # <<>>) =>
            (stack'[Depth].pc = "run"
               <=> test(None, Unset, tree, Top.parent, HeadBlock).ret)
       /\ (Top.pc = "run" /\ ~HasMarker(HeadBlock)
             /\ stack'[Depth].pc = "rest") =>
            /\ Depth' = Depth + 1
            /\ stack'[Depth'].parent = Locate(tree, Top.parent, HeadBlock).sibling
            /\ stack'[Depth'].blocks =
                 <<detab(HeadBlock, Locate(tree, Top.parent, HeadBlock).indent).block>>]_vars

====
